---- MODULE Spec2Model ----
(***************************************************************************)
(* Model of the MCP25xx driver (src/src/lib.rs).                           *)
(*                                                                         *)
(* The driver talks to the chip through four transport calls: set_cs_low,  *)
(* set_cs_high, spi_write and spi_transfer.  Every driver function is      *)
(* modelled as the sequence of transport calls it makes (its "plan"); the  *)
(* `?` operator of the source is modelled by Run, which cuts the plan at   *)
(* the first failing spi_write / spi_transfer.  The calls really made by   *)
(* the last operation are kept in `log`, the value it returned in          *)
(* `result`.  The chip is the environment: it answers transfers from its   *)
(* registers and executes every instruction window that was closed.        *)
(***************************************************************************)
EXTENDS Integers, Sequences, FiniteSets, TLC

VARIABLES
    fast,    \* build feature "mcp2515"/"mcp25625": fast-path opcodes available
    cs,      \* level of the chip-select line: "high" (released) or "low"
    chip,    \* registers of the chip
    call,    \* the last operation: name, argument, injected transport fault
    log,     \* transport calls made by the last operation, in order
    result   \* value returned by the last operation

vars == <<fast, cs, chip, call, log, result>>

(***************************************************************************)
(* Bounds of the model.                                                    *)
(***************************************************************************)
NumTxIds == 1       \* distinct identifiers of frames handed to the driver
NumRxIds == 1       \* distinct identifiers of frames arriving from the bus
MaxFilters == 2     \* longest filter list of a Config

(***************************************************************************)
(* u8 arithmetic.                                                          *)
(***************************************************************************)
Bit(b, i) == (b \div (2^i)) % 2

BitAnd(a, b) ==
    Bit(a, 0) * Bit(b, 0) + 2 * Bit(a, 1) * Bit(b, 1)
    + 4 * Bit(a, 2) * Bit(b, 2) + 8 * Bit(a, 3) * Bit(b, 3)
    + 16 * Bit(a, 4) * Bit(b, 4) + 32 * Bit(a, 5) * Bit(b, 5)
    + 64 * Bit(a, 6) * Bit(b, 6) + 128 * Bit(a, 7) * Bit(b, 7)

BitOr(a, b) == a + b - BitAnd(a, b)

BitNot(a) == 255 - a

Shl(a, n) == (a * (2^n)) % 256

(***************************************************************************)
(* Instruction opcodes (enum Instruction).                                 *)
(***************************************************************************)
Instruction_Reset == 192
Instruction_Read == 3
Instruction_Write == 2
Instruction_Rts == 128
Instruction_ReadStatus == 160
Instruction_BitModify == 5
Instruction_ReadRxBuffer == 144
Instruction_LoadTxBuffer == 64

(***************************************************************************)
(* Buffer and filter enumerations.                                         *)
(***************************************************************************)
TXB0 == 0
TXB1 == 1
TXB2 == 2
TxBuffer == {TXB0, TXB1, TXB2}

RXB0 == 0
RXB1 == 1
RxBuffer == {RXB0, RXB1}

Filter0 == 0
Filter3 == 16
Mask0 == 32
Mask1 == 36
AcceptanceFilter == {Filter0, Filter3, Mask0, Mask1}

(***************************************************************************)
(* Register addresses and layouts (crate::registers).                      *)
(***************************************************************************)
CANCTRL_ADDRESS == 15
CANSTAT_ADDRESS == 14
CNF3_ADDRESS == 40
CANINTF_ADDRESS == 44
RXB0CTRL_ADDRESS == 96
RXB1CTRL_ADDRESS == 112

\* OperationMode, the 3-bit REQOP field of CANCTRL
NormalOperation == 0
Sleep == 1
Loopback == 2
ListenOnly == 3
Configuration == 4
OperationMode == {NormalOperation, Sleep, Loopback, ListenOnly, Configuration}

\* CANCTRL::new().with_reqop(mode): all other fields zero
CANCTRL_with_reqop(mode) == Shl(mode, 5)

\* CANINTF::new(): all flags zero
CANINTF_new == 0

\* ReadStatusResponse::from_bytes: flags of the status byte
rx0if(status) == Bit(status, 0) = 1
rx1if(status) == Bit(status, 1) = 1
txreq0(status) == Bit(status, 2) = 1
txreq1(status) == Bit(status, 4) = 1
txreq2(status) == Bit(status, 6) = 1

(***************************************************************************)
(* Frames (crate::frame, crate::idheader).                                 *)
(***************************************************************************)
\* IdHeader::from(StandardId): SIDH, SIDL, EID8, EID0
IdHeader(id) == << id \div 8, (id % 8) * 32, 0, 0 >>

\* the payload bytes the model gives the frame with identifier id
PayloadByte(id, j) == (16 * j + id) % 256

\* CanFrame::new(id, data[0..n]): unused payload bytes are zero
CanFrame(id, n) ==
    [id |-> IdHeader(id), dlc |-> n,
     data |-> [j \in 1..8 |-> IF j <= n THEN PayloadByte(id, j) ELSE 0]]

\* CanFrame::default()
CanFrame_default == [id |-> <<0, 0, 0, 0>>, dlc |-> 0, data |-> [j \in 1..8 |-> 0]]

\* CanFrame::as_bytes: the 13-byte layout
as_bytes(frame) == frame.id \o <<frame.dlc>> \o frame.data

\* CanFrame::dlc(): the low nibble of the DLC byte
frame_dlc(frame) == frame.dlc % 16

\* DLC::set_dlc: replaces the low nibble
set_dlc(byte, n) == (byte - (byte % 16)) + n

IdOf(n) == IF n = 1 THEN 123 ELSE IF n = 2 THEN 2047 ELSE 100 + n

\* bitrates::clock_16mhz::CNF_500K_BPS as CNF::into_bytes gives it:
\* CNF3, CNF2, CNF1
CNF_500K_BPS == <<134, 240, 0>>

(***************************************************************************)
(* Transport calls (trait SpiWithCs).                                      *)
(***************************************************************************)
set_cs_low == [k |-> "low", bytes |-> <<>>]
set_cs_high == [k |-> "high", bytes |-> <<>>]
spi_write(bytes) == [k |-> "write", bytes |-> bytes]
\* bytes: what the chip clocks out during the transfer
spi_transfer(bytes) == [k |-> "xfer", bytes |-> bytes]

\* the error value of the transport: it tells which call failed
TransportError(fail) == <<"SpiError", fail>>

Fallible(c) == c.k \in {"write", "xfer"}

NumFallible(plan) == Len(SelectSeq(plan, Fallible))

\* the position in plan of its fail-th fallible call
FailingCall(plan, fail) ==
    SelectSeq([i \in 1..Len(plan) |-> i], LAMBDA i : Fallible(plan[i]))[fail]

\* a slip: the Err of the failing call is dropped and the calls go on
Run_ignoring_error(plan, fail) ==
    [i \in 1..Len(plan) |->
        [k |-> plan[i].k, bytes |-> plan[i].bytes,
         ok |-> fail = 0 \/ i # FailingCall(plan, fail)]]

\* The `?` operator: the calls made when the fail-th fallible call returns
\* Err (fail = 0: none does).  The failing call is the last one made.
Run(plan, fail) ==
    LET last == IF fail = 0 THEN Len(plan) ELSE FailingCall(plan, fail) IN
    [i \in 1..last |->
        [k |-> plan[i].k, bytes |-> plan[i].bytes, ok |-> fail = 0 \/ i < last]]

(***************************************************************************)
(* Register-level driver functions: the transport calls each one makes.    *)
(***************************************************************************)
read_status(status) ==
    << set_cs_low,
       spi_write(<<Instruction_ReadStatus>>),
       spi_transfer(<<status>>),
       set_cs_high >>

reset ==
    << set_cs_low, spi_write(<<Instruction_Reset>>), set_cs_high >>

write_register(address, reg) ==
    << set_cs_low, spi_write(<<Instruction_Write, address, reg>>), set_cs_high >>

modify_register(address, reg, mask) ==
    << set_cs_low,
       spi_write(<<Instruction_BitModify, address, mask, reg>>),
       set_cs_high >>

write_registers(start_address, data) ==
    << set_cs_low,
       spi_write(<<Instruction_Write, start_address>>),
       spi_write(data),
       set_cs_high >>

\* a slip: chip select is not released after the instruction
request_to_send_keeps_cs_low(buf_idx) ==
    << set_cs_low,
       spi_write(<< BitOr(Instruction_Rts, Shl(1, buf_idx)) >>) >>

\* a slip: the buffer number is used where the bitmask is expected
request_to_send_by_number(buf_idx) ==
    << set_cs_low,
       spi_write(<< BitOr(Instruction_Rts, buf_idx) >>),
       set_cs_high >>

request_to_send(buf_idx) ==
    << set_cs_low,
       spi_write(<< BitOr(Instruction_Rts, Shl(1, buf_idx)) >>),
       set_cs_high >>

\* a slip: the whole 13-byte frame is sent
load_tx_buffer_whole_frame(buf_idx, frame) ==
    LET data == as_bytes(frame) IN
    IF fast
    THEN << set_cs_low,
            spi_write(<< BitOr(Instruction_LoadTxBuffer, buf_idx * 2) >>),
            spi_write(data),
            set_cs_high >>
    ELSE write_registers(49 + 16 * buf_idx, data)

\* a slip: the buffer number is not scaled to the `abc` field
load_tx_buffer_unscaled(buf_idx, frame) ==
    LET data == SubSeq(as_bytes(frame), 1, 5 + frame_dlc(frame)) IN
    IF fast
    THEN << set_cs_low,
            spi_write(<< BitOr(Instruction_LoadTxBuffer, buf_idx) >>),
            spi_write(data),
            set_cs_high >>
    ELSE write_registers(49 + 16 * buf_idx, data)

load_tx_buffer(buf_idx, frame) ==
    LET data == SubSeq(as_bytes(frame), 1, 5 + frame_dlc(frame)) IN
    IF fast
    THEN << set_cs_low,
            spi_write(<< BitOr(Instruction_LoadTxBuffer, buf_idx * 2) >>),
            spi_write(data),
            set_cs_high >>
    ELSE write_registers(49 + 16 * buf_idx, data)

\* a slip: the generic Read is used in every build
send_read_rx_instruction_generic(buf_idx) ==
    spi_write(<< Instruction_Read, 97 + 16 * buf_idx >>)

send_read_rx_instruction(buf_idx) ==
    IF fast
    THEN spi_write(<< BitOr(Instruction_ReadRxBuffer, buf_idx * 2) >>)
    ELSE spi_write(<< Instruction_Read, 97 + 16 * buf_idx >>)

\* a slip: the length code is used as received
rx_dlc_unclamped(dlc_byte) == dlc_byte % 16

\* the length code of the received DLC byte, clamped to the payload capacity
rx_dlc(dlc_byte) == IF dlc_byte % 16 > 8 THEN 8 ELSE dlc_byte % 16

\* the frame's DLC byte after the clamp
rx_dlc_byte(dlc_byte) ==
    IF dlc_byte % 16 > 8 THEN set_dlc(dlc_byte, 8) ELSE dlc_byte

\* a slip: the flag clear covers the whole register
read_rx_buffer_clears_all(buf_idx, rx) ==
    LET n == rx_dlc(rx[5]) IN
    << set_cs_low,
       send_read_rx_instruction(buf_idx),
       spi_transfer(SubSeq(rx, 1, 5)),
       spi_transfer(SubSeq(rx, 6, 5 + n)),
       set_cs_high >>
    \o (IF fast THEN <<>>
        ELSE modify_register(CANINTF_ADDRESS, CANINTF_new, 255))

\* rx: the bytes the chip clocks out after the read instruction
read_rx_buffer(buf_idx, rx) ==
    LET n == rx_dlc(rx[5]) IN
    << set_cs_low,
       send_read_rx_instruction(buf_idx),
       spi_transfer(SubSeq(rx, 1, 5)),
       spi_transfer(SubSeq(rx, 6, 5 + n)),
       set_cs_high >>
    \o (IF fast THEN <<>>
        ELSE modify_register(CANINTF_ADDRESS, CANINTF_new, Shl(1, buf_idx)))

\* the frame read_rx_buffer returns on success
read_rx_frame(rx) ==
    LET n == rx_dlc(rx[5]) IN
    [id |-> SubSeq(rx, 1, 4),
     dlc |-> rx_dlc_byte(rx[5]),
     data |-> [j \in 1..8 |-> IF j <= n THEN rx[5 + j] ELSE CanFrame_default.data[j]]]

(***************************************************************************)
(* Configuration functions.                                                *)
(***************************************************************************)
\* a slip: the mask covers the whole register
set_mode_full_mask(mode) ==
    modify_register(CANCTRL_ADDRESS, CANCTRL_with_reqop(mode), 255)

set_mode(mode) ==
    modify_register(CANCTRL_ADDRESS, CANCTRL_with_reqop(mode), 224)

\* cnf: the bytes of CNF::into_bytes, that is CNF3, CNF2, CNF1
set_bitrate(cnf) == write_registers(CNF3_ADDRESS, cnf)

set_filter(filter, id) == write_registers(filter, id)

RECURSIVE set_filters(_)
set_filters(filters) ==
    IF filters = <<>> THEN <<>>
    ELSE set_filter(Head(filters)[1], Head(filters)[2]) \o set_filters(Tail(filters))

\* a slip: the chip is not reset first
apply_config_without_reset(config) ==
    set_bitrate(config.cnf)
    \o write_register(RXB0CTRL_ADDRESS, config.rxb0ctrl)
    \o write_register(RXB1CTRL_ADDRESS, config.rxb1ctrl)
    \o set_filters(config.filters)
    \o write_register(CANCTRL_ADDRESS, config.canctrl)

\* a slip: the control register is written before the filters
apply_config_mode_before_filters(config) ==
    reset
    \o set_bitrate(config.cnf)
    \o write_register(RXB0CTRL_ADDRESS, config.rxb0ctrl)
    \o write_register(RXB1CTRL_ADDRESS, config.rxb1ctrl)
    \o write_register(CANCTRL_ADDRESS, config.canctrl)
    \o set_filters(config.filters)

apply_config(config) ==
    reset
    \o set_bitrate(config.cnf)
    \o write_register(RXB0CTRL_ADDRESS, config.rxb0ctrl)
    \o write_register(RXB1CTRL_ADDRESS, config.rxb1ctrl)
    \o set_filters(config.filters)
    \o write_register(CANCTRL_ADDRESS, config.canctrl)

(***************************************************************************)
(* embedded_can::Can: transmit arbitration and receive.                    *)
(***************************************************************************)
\* a slip: the flag of TXB1 is not looked at
try_transmit_buf_idx_skips_txb1(status) ==
    IF txreq0(status) THEN TXB2 ELSE TXB0

\* the slot try_transmit picks from the polled status
try_transmit_buf_idx(status) ==
    IF txreq0(status)
    THEN IF txreq1(status) THEN TXB2 ELSE TXB1
    ELSE TXB0

\* a slip: the flag of the last slot is not looked at
try_transmit_never_blocks(status) == FALSE

try_transmit_would_block(status) ==
    txreq0(status) /\ txreq1(status) /\ txreq2(status)

\* a slip: the request to send is issued before the load
try_transmit_rts_first(status, frame) ==
    read_status(status)
    \o (IF try_transmit_would_block(status) THEN <<>>
        ELSE request_to_send(try_transmit_buf_idx(status))
             \o load_tx_buffer(try_transmit_buf_idx(status), frame))

\* a slip: a busy chip is polled a second time
try_transmit_polls_again(status, frame) ==
    read_status(status)
    \o (IF try_transmit_would_block(status) THEN read_status(status)
        ELSE load_tx_buffer(try_transmit_buf_idx(status), frame)
             \o request_to_send(try_transmit_buf_idx(status)))

try_transmit(status, frame) ==
    read_status(status)
    \o (IF try_transmit_would_block(status) THEN <<>>
        ELSE load_tx_buffer(try_transmit_buf_idx(status), frame)
             \o request_to_send(try_transmit_buf_idx(status)))

try_transmit_result(status, fail) ==
    IF fail > 0
    THEN [kind |-> "err", val |-> TransportError(fail)]
    ELSE IF try_transmit_would_block(status)
         THEN [kind |-> "wouldblock", val |-> "none"]
         ELSE [kind |-> "ok", val |-> "None"]

\* a slip: buffer 1 is looked at first
try_receive_rx1_first(status, rxs) ==
    read_status(status)
    \o (IF rx1if(status) THEN read_rx_buffer(RXB1, rxs[RXB1])
        ELSE IF rx0if(status) THEN read_rx_buffer(RXB0, rxs[RXB0])
        ELSE <<>>)

\* rxs[i]: the bytes the chip clocks out when buffer i is read
try_receive(status, rxs) ==
    read_status(status)
    \o (IF rx0if(status) THEN read_rx_buffer(RXB0, rxs[RXB0])
        ELSE IF rx1if(status) THEN read_rx_buffer(RXB1, rxs[RXB1])
        ELSE <<>>)

\* a slip: a transport error is reported as would-block
try_receive_result_hides_error(status, rxs, fail) ==
    IF fail = 0 /\ rx0if(status) THEN [kind |-> "ok", val |-> read_rx_frame(rxs[RXB0])]
    ELSE IF fail = 0 /\ rx1if(status) THEN [kind |-> "ok", val |-> read_rx_frame(rxs[RXB1])]
    ELSE [kind |-> "wouldblock", val |-> "none"]

try_receive_result(status, rxs, fail) ==
    IF fail > 0
    THEN [kind |-> "err", val |-> TransportError(fail)]
    ELSE IF rx0if(status) THEN [kind |-> "ok", val |-> read_rx_frame(rxs[RXB0])]
    ELSE IF rx1if(status) THEN [kind |-> "ok", val |-> read_rx_frame(rxs[RXB1])]
    ELSE [kind |-> "wouldblock", val |-> "none"]

(***************************************************************************)
(* The chip.  canctrl and canintf are the CANCTRL and CANINTF registers,   *)
(* txreq[i] the TXREQ bit of transmit buffer i, rxbuf[i] the message held  *)
(* in receive buffer i (its identifier and DLC byte; the payload follows   *)
(* from the identifier).                                                   *)
(***************************************************************************)
\* CANCTRL after power-on or reset: Configuration mode, CLKOUT enabled
CANCTRL_RESET == 135

ChipInit(ctrl) ==
    [canctrl |-> ctrl,
     canintf |-> 0,
     txreq |-> [i \in TxBuffer |-> FALSE],
     rxbuf |-> [i \in RxBuffer |-> [id |-> 0, dlc |-> 0]]]

ChipMode(c) == c.canctrl \div 32

ChipActive(c) == ChipMode(c) \in {NormalOperation, Loopback}

\* byte off (1..13) of RXBnSIDH .. RXBnD7 of a receive buffer
RxMem(b, off) ==
    IF off <= 4 THEN IdHeader(b.id)[off]
    ELSE IF off = 5 THEN b.dlc
    ELSE IF b.id = 0 THEN 0
    ELSE PayloadByte(b.id, off - 5)

\* the register map, as far as the model keeps it
MemRead(c, a) ==
    LET off == a % 16
        row == a \div 16
    IN  IF off = 15 THEN c.canctrl
        ELSE IF off = 14 THEN ChipMode(c) * 32
        ELSE IF a = CANINTF_ADDRESS THEN c.canintf
        ELSE IF row \in {6, 7} /\ off >= 1 THEN RxMem(c.rxbuf[row - 6], off)
        ELSE 0

ChipReadSeq(c, a, n) == [j \in 1..n |-> MemRead(c, (a + j - 1) % 128)]

\* Read Rx Buffer 1001 0nm0: the address pointer for nm = 00, 01, 10, 11
RxBufferStart(opcode) == 97 + 16 * Bit(opcode, 2) + 5 * Bit(opcode, 1)

\* Load Tx Buffer 0100 0abc: the address pointer for abc = 000, 001, 010,
\* 011, 100, 101
TxBufferStart(opcode) == 49 + 16 * ((opcode % 8) \div 2) + 5 * (opcode % 2)

IsLoadTxBuffer(opcode) ==
    opcode \div 8 = Instruction_LoadTxBuffer \div 8 /\ opcode % 8 <= 5

IsReadRxBuffer(opcode) ==
    opcode \div 8 = Instruction_ReadRxBuffer \div 8 /\ opcode % 2 = 0

IsRts(opcode) == opcode \div 8 = Instruction_Rts \div 8

\* what the chip clocks out after a read instruction, for as long as the
\* driver keeps transferring (at most 5 + 15 bytes)
ChipAnswer(c, instr) ==
    IF instr[1] = Instruction_Read
    THEN ChipReadSeq(c, instr[2], 20)
    ELSE ChipReadSeq(c, RxBufferStart(instr[1]), 20)

\* the byte answered to Read Status
ChipStatus(c) ==
    Bit(c.canintf, 0) + 2 * Bit(c.canintf, 1)
    + (IF c.txreq[TXB0] THEN 4 ELSE 0) + 8 * Bit(c.canintf, 2)
    + (IF c.txreq[TXB1] THEN 16 ELSE 0) + 32 * Bit(c.canintf, 3)
    + (IF c.txreq[TXB2] THEN 64 ELSE 0) + 128 * Bit(c.canintf, 4)

ChipStore(c, a, v) ==
    IF a % 16 = 15 THEN [c EXCEPT !.canctrl = v]
    ELSE IF a = CANINTF_ADDRESS THEN [c EXCEPT !.canintf = v]
    ELSE c

RECURSIVE ChipWrite(_, _, _)
ChipWrite(c, a, data) ==
    IF data = <<>> THEN c
    ELSE ChipWrite(ChipStore(c, a, Head(data)), (a + 1) % 128, Tail(data))

\* Bit Modify: only the bits set in mask take the value of data
ChipBitModify(c, a, mask, data) ==
    ChipStore(c, a, BitOr(BitAnd(MemRead(c, a), BitNot(mask)), BitAnd(data, mask)))

ChipReset(c) ==
    [c EXCEPT !.canctrl = CANCTRL_RESET,
              !.canintf = 0,
              !.txreq = [i \in TxBuffer |-> FALSE]]

\* the effect of one instruction: bytes is what was written while
\* chip-select was low, the effect is taken when it is released
ChipExec(c, bytes) ==
    IF bytes = <<>> THEN c
    ELSE LET opcode == bytes[1] IN
         IF opcode = Instruction_Reset THEN ChipReset(c)
         ELSE IF opcode = Instruction_Write /\ Len(bytes) >= 2
              THEN ChipWrite(c, bytes[2], SubSeq(bytes, 3, Len(bytes)))
         ELSE IF opcode = Instruction_BitModify /\ Len(bytes) >= 4
              THEN ChipBitModify(c, bytes[2], bytes[3], bytes[4])
         ELSE IF IsRts(opcode)
              THEN [c EXCEPT !.txreq =
                       [i \in TxBuffer |-> c.txreq[i] \/ Bit(opcode, i) = 1]]
         ELSE IF IsReadRxBuffer(opcode)
              THEN [c EXCEPT !.canintf =
                       BitAnd(c.canintf, BitNot(Shl(1, Bit(opcode, 2))))]
         ELSE c

\* the chip after the transport calls made[i..]; cur: the bytes written in
\* the open chip-select window
\* (every set_cs_low starts a new instruction, also when an earlier
\* operation returned without set_cs_high)
RECURSIVE ChipRunFrom(_, _, _, _)
ChipRunFrom(c, made, i, cur) ==
    IF i > Len(made) THEN c
    ELSE LET e == made[i] IN
         IF e.k = "low" THEN ChipRunFrom(c, made, i + 1, <<>>)
         ELSE IF e.k = "high" THEN ChipRunFrom(ChipExec(c, cur), made, i + 1, <<>>)
         ELSE IF e.k = "write" /\ e.ok THEN ChipRunFrom(c, made, i + 1, cur \o e.bytes)
         ELSE ChipRunFrom(c, made, i + 1, cur)

ChipRun(c, made) == ChipRunFrom(c, made, 1, <<>>)

IsCsCall(e) == e.k \in {"low", "high"}

\* the chip-select line after the transport calls of made: as the last
\* set_cs_low / set_cs_high left it
CsAfter(level, made) ==
    LET moves == SelectSeq(made, IsCsCall) IN
    IF moves = <<>> THEN level ELSE moves[Len(moves)].k

(***************************************************************************)
(* Actions.  One call of a driver function is one step: the transport      *)
(* makes the fail-th fallible call of the plan return err (fail = 0: the   *)
(* transport works).                                                       *)
(***************************************************************************)
Faults(plan) == 0..NumFallible(plan)

Unit(fail) ==
    IF fail > 0 THEN [kind |-> "err", val |-> TransportError(fail)]
    ELSE [kind |-> "ok", val |-> "unit"]

Step(name, arg, plan, fail, res) ==
    LET made == Run(plan, fail) IN
    /\ call' = [fail |-> fail, name |-> name, arg |-> arg]
    /\ log' = made
    /\ chip' = ChipRun(chip, made)
    /\ cs' = CsAfter(cs, made)
    /\ result' = res
    /\ UNCHANGED fast

ChipEvent(c, arg) ==
    /\ chip' = c
    /\ call' = [fail |-> 0, name |-> "chip", arg |-> arg]
    /\ log' = <<>>
    /\ result' = [kind |-> "none", val |-> "none"]
    /\ UNCHANGED <<fast, cs>>

TryTransmit(lens) ==
    \E n \in 1..NumTxIds, len \in lens :
        LET frame == CanFrame(IdOf(n), len)
            status == ChipStatus(chip)
            plan == try_transmit(status, frame)
        IN  \E fail \in Faults(plan) :
                Step("try_transmit", frame, plan, fail,
                     try_transmit_result(status, fail))

TryReceive ==
    LET status == ChipStatus(chip)
        rxs == [i \in RxBuffer |->
                   ChipAnswer(chip, send_read_rx_instruction(i).bytes)]
        plan == try_receive(status, rxs)
    IN  \E fail \in Faults(plan) :
            Step("try_receive", 0, plan, fail,
                 try_receive_result(status, rxs, fail))

\* read_rx_buffer called directly.  The answer is not taken from the chip
\* model: the transport may deliver any DLC byte (a length code of 9..15
\* included), followed by payload bytes for as long as the driver transfers.
ScriptedAnswer(dlc_byte) ==
    [j \in 1..20 |->
        IF j <= 4 THEN IdHeader(IdOf(1))[j]
        ELSE IF j = 5 THEN dlc_byte
        ELSE PayloadByte(IdOf(1), j - 5)]

ReadRxBuffer ==
    \E buf_idx \in RxBuffer, dlc_byte \in 0..15 :
        LET rx == ScriptedAnswer(dlc_byte)
            plan == read_rx_buffer(buf_idx, rx)
        IN  \E fail \in Faults(plan) :
                Step("read_rx_buffer", <<buf_idx, dlc_byte>>, plan, fail,
                     IF fail > 0 THEN Unit(fail)
                     ELSE [kind |-> "ok", val |-> read_rx_frame(rx)])

\* read_rx_buffer called directly, answered by the chip
ReadRxBufferOfChip ==
    \E buf_idx \in RxBuffer :
        LET rx == ChipAnswer(chip, send_read_rx_instruction(buf_idx).bytes)
            plan == read_rx_buffer(buf_idx, rx)
        IN  \E fail \in Faults(plan) :
                Step("read_rx_buffer", <<buf_idx, rx[5]>>, plan, fail,
                     IF fail > 0 THEN Unit(fail)
                     ELSE [kind |-> "ok", val |-> read_rx_frame(rx)])

\* Config::default().mode(mode).bitrate(CNF_500K_BPS).filters(filters)
ConfigOf(mode, filters) ==
    [cnf |-> CNF_500K_BPS,
     filters |-> filters,
     rxb0ctrl |-> 96,
     rxb1ctrl |-> 0,
     canctrl |-> CANCTRL_with_reqop(mode) + 5]

FilterEntries ==
    { <<Filter0, IdHeader(123)>>, <<Mask0, IdHeader(2047)>> }

FilterLists == UNION { [1..n -> FilterEntries] : n \in 0..MaxFilters }

\* the modes the model's configurations ask for
ConfigModes == {NormalOperation, ListenOnly}

ApplyConfig ==
    \E mode \in ConfigModes, filters \in FilterLists :
        LET config == ConfigOf(mode, filters)
            plan == apply_config(config)
        IN  \E fail \in Faults(plan) :
                Step("apply_config", <<mode, config>>, plan, fail, Unit(fail))

SetMode ==
    \E mode \in OperationMode :
        LET plan == set_mode(mode)
        IN  \E fail \in Faults(plan) :
                Step("set_mode", mode, plan, fail, Unit(fail))

\* the chip finishes the transmission of a pending buffer
TxComplete ==
    \E i \in TxBuffer :
        /\ chip.txreq[i]
        /\ ChipActive(chip)
        /\ ChipEvent([chip EXCEPT !.txreq[i] = FALSE], i)

\* a message from the bus is stored in a free receive buffer
FrameArrives(nibbles) ==
    \E i \in RxBuffer, n \in 1..NumRxIds, d \in nibbles :
        /\ Bit(chip.canintf, i) = 0
        /\ ChipActive(chip)
        /\ ChipEvent([chip EXCEPT !.rxbuf[i] = [id |-> IdOf(n), dlc |-> d],
                                  !.canintf = BitOr(@, Shl(1, i))], i)

(***************************************************************************)
(* Specifications.                                                         *)
(***************************************************************************)
Init ==
    /\ fast \in BOOLEAN
    /\ cs = "high"
    /\ \E m \in {Configuration, NormalOperation} :
           chip = ChipInit(CANCTRL_with_reqop(m) + 7)
    /\ call = [fail |-> 0, name |-> "new", arg |-> 0]
    /\ log = <<>>
    /\ result = [kind |-> "none", val |-> "none"]

\* the embedded_can::Can interface
Next ==
    \/ TryTransmit({8})
    \/ TryReceive
    \/ TxComplete
    \/ FrameArrives({3, 12})

Spec == Init /\ [][Next]_vars

\* read_rx_buffer against a scripted transport
NextRead == ReadRxBuffer

SpecRead == Init /\ [][NextRead]_vars

\* the declared lengths of the frames handed to try_transmit
FrameLengths == 0..8

\* try_transmit with frames of every length
NextLoad ==
    \/ TryTransmit(FrameLengths)
    \/ TxComplete

SpecLoad == Init /\ [][NextLoad]_vars

\* CANINTF values the chip may hold when a buffer is read: both receive
\* flags alone, every flag, error and transmit flags without receive flags,
\* one receive flag among others
FlagValues == {3, 255, 164, 97}

InitFlags ==
    /\ fast \in BOOLEAN
    /\ cs = "high"
    /\ \E v \in FlagValues :
           chip = [ChipInit(CANCTRL_with_reqop(NormalOperation) + 7)
                      EXCEPT !.canintf = v]
    /\ call = [fail |-> 0, name |-> "new", arg |-> 0]
    /\ log = <<>>
    /\ result = [kind |-> "none", val |-> "none"]

\* read_rx_buffer against a chip holding other interrupt flags
NextFlags == ReadRxBufferOfChip

SpecFlags == InitFlags /\ [][NextFlags]_vars

\* configuration and mode switching
NextCfg ==
    \/ ApplyConfig
    \/ SetMode

SpecCfg == Init /\ [][NextCfg]_vars

(***************************************************************************)
(* Properties.  They read the transport calls of the last operation off    *)
(* `log`, written out with the bytes of the data sheet.                    *)
(***************************************************************************)
Lo == [k |-> "low", bytes |-> <<>>, ok |-> TRUE]
Hi == [k |-> "high", bytes |-> <<>>, ok |-> TRUE]
Wr(bytes) == [k |-> "write", bytes |-> bytes, ok |-> TRUE]
Xf(bytes) == [k |-> "xfer", bytes |-> bytes, ok |-> TRUE]

\* the status poll of the last operation was answered
Polled == Len(log) >= 3 /\ log[3].k = "xfer" /\ log[3].ok

PolledStatus == log[3].bytes[1]

TxPending(i) == Bit(PolledStatus, 2 + 2 * i) = 1

RxPending(i) == Bit(PolledStatus, i) = 1

\* the bytes that open the load of transmit slot i
LoadOpening(i) == IF fast THEN <<64 + 2 * i>> ELSE <<2, 49 + 16 * i>>

\* the bytes that open the read of receive buffer i
ReadOpening(i) == IF fast THEN <<144 + 2 * i>> ELSE <<3, 97 + 16 * i>>

\* C1: whatever the three transmit-request flags of the polled status are,
\* try_transmit loads the lowest-numbered slot whose flag is clear; with all
\* three set it returns would-block and the status poll is the only
\* instruction it sent.
C1_LowestFreeSlot ==
    (call.name = "try_transmit" /\ Polled) =>
        IF TxPending(0) /\ TxPending(1) /\ TxPending(2)
        THEN result.kind = "wouldblock" /\ log = <<Lo, Wr(<<160>>), Xf(<<PolledStatus>>), Hi>>
        ELSE /\ Len(log) >= 6
             /\ log[5].k = "low"
             /\ log[6].k = "write"
             /\ log[6].bytes =
                    LoadOpening(IF ~TxPending(0) THEN 0 ELSE IF ~TxPending(1) THEN 1 ELSE 2)

C1_Witness ==
    /\ call.name = "try_transmit"
    /\ Polled
    /\ TxPending(0) /\ TxPending(1) /\ TxPending(2)
    /\ result.kind = "wouldblock"

\* the first 5 + n bytes of a frame of declared length n
Loaded(frame) == frame.id \o <<frame.dlc>> \o SubSeq(frame.data, 1, frame.dlc % 16)

\* C2: a successful try_transmit sends the status poll, then the load of the
\* frame into one slot, then a request-to-send whose low three bits have
\* exactly the bit of that slot set, and returns None.
C2_LoadThenRts ==
    (call.name = "try_transmit" /\ result.kind = "ok") =>
        /\ result.val = "None"
        /\ \E i \in 0..2 :
               log = << Lo, Wr(<<160>>), Xf(<<PolledStatus>>), Hi,
                        Lo, Wr(LoadOpening(i)), Wr(Loaded(call.arg)), Hi,
                        Lo, Wr(<<128 + 2^i>>), Hi >>

C2_Witness ==
    /\ call.name = "try_transmit"
    /\ result.kind = "ok"
    /\ Len(log) = 11
    /\ log[10].bytes = <<132>>

\* C3: try_receive reads buffer 0 whenever the polled status has its flag
\* set, buffer 1 when only the flag of buffer 1 is set, and with neither set
\* it returns would-block having sent the status poll alone.
C3_ReceivePriority ==
    (call.name = "try_receive" /\ Polled) =>
        IF RxPending(0) \/ RxPending(1)
        THEN /\ Len(log) >= 6
             /\ log[5].k = "low"
             /\ log[6].k = "write"
             /\ log[6].bytes = ReadOpening(IF RxPending(0) THEN 0 ELSE 1)
        ELSE result.kind = "wouldblock" /\ log = <<Lo, Wr(<<160>>), Xf(<<PolledStatus>>), Hi>>

C3_Witness ==
    /\ call.name = "try_receive"
    /\ Polled
    /\ RxPending(0) /\ RxPending(1)
    /\ result.kind = "ok"
    /\ log[6].bytes = ReadOpening(0)

\* one instruction written in one call, and one written in two
Win(bytes) == <<Lo, Wr(bytes), Hi>>
Win2(opening, data) == <<Lo, Wr(opening), Wr(data), Hi>>

\* one write per filter/mask pair, in list order: its slot address, then
\* its header bytes
FilterCalls(filters) ==
    [j \in 1..(4 * Len(filters)) |->
        LET f == filters[((j - 1) \div 4) + 1]
            r == (j - 1) % 4
        IN  IF r = 0 THEN Lo
            ELSE IF r = 1 THEN Wr(<<2, f[1]>>)
            ELSE IF r = 2 THEN Wr(f[2])
            ELSE Hi]

\* reset; Write at CNF3 (0x28); Write RXB0CTRL (0x60); Write RXB1CTRL
\* (0x70); the filters; Write CANCTRL (0x0F)
ConfigCalls(config) ==
    Win(<<192>>)
    \o Win2(<<2, 40>>, config.cnf)
    \o Win(<<2, 96, config.rxb0ctrl>>)
    \o Win(<<2, 112, config.rxb1ctrl>>)
    \o FilterCalls(config.filters)
    \o Win(<<2, 15, config.canctrl>>)

\* C4: a successful apply_config emits exactly: reset, one write at CNF3
\* with CNF3, CNF2, CNF1, a write of RXB0CTRL, a write of RXB1CTRL, one write
\* per filter/mask pair in list order, and last a write of CANCTRL with the
\* configured mode bits.
C4_ConfigSequence ==
    (call.name = "apply_config" /\ result.kind = "ok") =>
        /\ log = ConfigCalls(call.arg[2])
        /\ log[Len(log) - 1].bytes[3] \div 32 = call.arg[1]

C4_Witness ==
    /\ call.name = "apply_config"
    /\ result.kind = "ok"
    /\ Len(call.arg[2].filters) = 2
    /\ call.arg[2].filters[1][1] = 32
    /\ call.arg[2].filters[2][1] = 0
    /\ call.arg[1] = 3

\* C5: when a transport call fails inside apply_config, that error is
\* returned, the failing call is the last one made, the calls before it are
\* the first calls of the configuration sequence, no write of CANCTRL went
\* through, and once the reset went through the chip is left in its reset
\* mode.
C5_ConfigStopsAtError ==
    (call.name = "apply_config" /\ call.fail > 0) =>
        LET n == Len(log)
            full == ConfigCalls(call.arg[2])
        IN  /\ result = [kind |-> "err", val |-> <<"SpiError", call.fail>>]
            /\ n >= 2 /\ n <= Len(full)
            /\ \A i \in 1..(n - 1) : log[i] = full[i]
            /\ log[n] = [full[n] EXCEPT !.ok = FALSE]
            /\ \A i \in 1..n :
                   (log[i].ok /\ log[i].k = "write" /\ Len(log[i].bytes) >= 2)
                       => ~(log[i].bytes[1] = 2 /\ log[i].bytes[2] = 15)
            /\ (call.fail > 1 => chip.canctrl = 135)

C5_Witness ==
    /\ call.name = "apply_config"
    /\ call.fail = 7
    /\ Len(call.arg[2].filters) = 2
    /\ Len(log) = 16
    /\ log[15].bytes = <<2, 32>>
    /\ log[16].bytes = <<255, 224, 0, 0>>
    /\ ~log[16].ok
    /\ result.kind = "err"

\* C6: a successful set_mode issues the single instruction Bit Modify on
\* CANCTRL with mask 0b11100000 and the mode in the top three data bits;
\* whatever CANCTRL held before, its top three bits become the mode and its
\* low five bits keep their value.
C6_SetModeTouchesModeBitsOnly ==
    [][ (call'.name = "set_mode" /\ result'.kind = "ok") =>
            /\ log' = Win(<<5, 15, 224, 32 * call'.arg>>)
            /\ chip'.canctrl = 32 * call'.arg + (chip.canctrl % 32) ]_vars

C6_Witness ==
    /\ call.name = "set_mode"
    /\ result.kind = "ok"
    /\ call.arg = 1
    /\ chip.canctrl = 37

\* writes that open an instruction, i.e. follow set_cs_low
Openings == { i \in 2..Len(log) : log[i].k = "write" /\ log[i - 1].k = "low" }

\* C7: with the fast path enabled the load uses Load Tx Buffer and the read
\* uses Read Rx Buffer, each with the slot in the low bits, and no Bit Modify
\* is issued; with it disabled the load is a Write at 0x31 + 0x10 * slot, the
\* read a Read at 0x61 + 0x10 * slot, and a Bit Modify on CANINTF follows
\* the read.
C7_OpcodeByCapability ==
    /\ (call.name = "try_transmit" /\ Len(log) >= 6) =>
           \E i \in 0..2 :
               log[6].bytes = (IF fast THEN <<64 + 2 * i>> ELSE <<2, 49 + 16 * i>>)
    /\ (call.name = "try_receive" /\ Len(log) >= 6) =>
           \E i \in 0..1 :
               /\ log[6].bytes = (IF fast THEN <<144 + 2 * i>> ELSE <<3, 97 + 16 * i>>)
               /\ IF fast
                  THEN /\ \A j \in Openings : log[j].bytes[1] # 5
                       /\ (result.kind = "ok" => Len(log) = 9)
                  ELSE result.kind = "ok" =>
                           /\ Len(log) = 12
                           /\ log[9] = Hi
                           /\ SubSeq(log, 10, 12) = Win(<<5, 44, 2^i, 0>>)

C7_Witness ==
    /\ ~fast
    /\ call.name = "try_receive"
    /\ result.kind = "ok"
    /\ log[6].bytes = <<3, 113>>
    /\ log[11].bytes = <<5, 44, 2, 0>>

\* C8: whatever length nibble 0..15 read_rx_buffer receives, the payload
\* transfer is of min(nibble, 8) bytes, never more than 8, and the frame
\* returned has that length.
C8_LengthClamp ==
    (call.name = "read_rx_buffer" /\ Len(log) >= 4 /\ log[3].ok) =>
        LET nibble == log[3].bytes[5] % 16
            m == IF nibble > 8 THEN 8 ELSE nibble
        IN  /\ Len(log[3].bytes) = 5
            /\ log[4].k = "xfer"
            /\ Len(log[4].bytes) = m
            /\ Len(log[4].bytes) <= 8
            /\ Cardinality({ i \in 1..Len(log) : log[i].k = "xfer" }) = 2
            /\ (result.kind = "ok" => result.val.dlc % 16 = m)

C8_Witness ==
    /\ call.name = "read_rx_buffer"
    /\ result.kind = "ok"
    /\ log[3].bytes[5] = 15
    /\ Len(log[4].bytes) = 8
    /\ result.val.dlc = 8

\* C9: a call of try_transmit or try_receive makes at most 12 transport
\* calls and polls the status exactly once.
C9_OnePollPerCall ==
    (call.name \in {"try_transmit", "try_receive"}) =>
        /\ Len(log) <= 12
        /\ Cardinality({ i \in Openings : log[i].bytes = <<160>> }) = 1

C9_Witness ==
    /\ call.name = "try_receive"
    /\ result.kind = "wouldblock"
    /\ Len(log) = 4

\* C10: would-block is returned only after a status poll that succeeded
\* and showed every transmit slot pending (no receive buffer pending);
\* a transport failure at any call comes back as that call's error, and the
\* failing call is the last call made.
C10_ErrorsPassThrough ==
    (call.name \in {"try_transmit", "try_receive"}) =>
        /\ result.kind = "wouldblock" =>
               /\ call.fail = 0
               /\ Polled
               /\ \A i \in 1..Len(log) : log[i].ok
               /\ IF call.name = "try_transmit"
                  THEN TxPending(0) /\ TxPending(1) /\ TxPending(2)
                  ELSE ~RxPending(0) /\ ~RxPending(1)
        /\ call.fail > 0 =>
               /\ result = [kind |-> "err", val |-> <<"SpiError", call.fail>>]
               /\ ~log[Len(log)].ok
               /\ \A i \in 1..(Len(log) - 1) : log[i].ok
               /\ Cardinality({ i \in 1..Len(log) :
                                   log[i].k \in {"write", "xfer"} }) = call.fail
        /\ result.kind = "err" => call.fail > 0

C10_Witness ==
    /\ ~fast
    /\ call.name = "try_receive"
    /\ call.fail = 6
    /\ result.kind = "err"
    /\ log[Len(log)].bytes = <<5, 44, 1, 0>>

\* the first byte of each instruction of the data sheet
Opcodes ==
    {192, 3, 2, 5, 160, 176} \cup (128..135) \cup {144, 146, 148, 150} \cup (64..69)

BufferRead == IF RxPending(0) THEN 0 ELSE 1

\* C12: in both builds, after a successful try_receive that read buffer i
\* the chip's receive flag of buffer i is clear and the frame returned is
\* the one buffer i held, so that repeated calls drain both buffers.
C12_ReadClearsFlag ==
    (call.name = "try_receive" /\ result.kind = "ok") =>
        /\ Bit(chip.canintf, BufferRead) = 0
        /\ result.val.id = IdHeader(chip.rxbuf[BufferRead].id)

\* the address at which the read of read_rx_buffer starts on the chip
ReadStart ==
    IF log[2].bytes[1] = Instruction_Read THEN log[2].bytes[2]
    ELSE RxBufferStart(log[2].bytes[1])

\* C13: for each receive buffer i, the read instruction of read_rx_buffer
\* starts at 0x61 + 0x10 * i in both builds: with the fast path the address
\* pointer the chip takes from the opcode 1001 0nm0 is the address the
\* generic Read is given.
C13_SameReadAddress ==
    (call.name = "read_rx_buffer" /\ Len(log) >= 2) =>
        /\ log[2].k = "write"
        /\ fast => IsReadRxBuffer(log[2].bytes[1])
        /\ ReadStart = 97 + 16 * call.arg[1]

\* the transmit slot a try_transmit loads, by the flags of its status poll
SlotLoaded == IF ~TxPending(0) THEN 0 ELSE IF ~TxPending(1) THEN 1 ELSE 2

\* the address at which the load of try_transmit starts on the chip
LoadStart ==
    IF log[6].bytes[1] = Instruction_Write THEN log[6].bytes[2]
    ELSE TxBufferStart(log[6].bytes[1])

\* C14: for each transmit slot i, the load of the frame starts at
\* 0x31 + 0x10 * i in both builds: with the fast path the address pointer
\* the chip takes from the opcode 0100 0abc is the address the generic
\* Write is given, and the data bytes that follow are the same, the first
\* 5 + dlc bytes of the frame.
C14_SameLoadAddress ==
    (call.name = "try_transmit" /\ Len(log) >= 6) =>
        /\ log[6].k = "write"
        /\ Len(log[6].bytes) = (IF fast THEN 1 ELSE 2)
        /\ fast => IsLoadTxBuffer(log[6].bytes[1])
        /\ LoadStart = 49 + 16 * SlotLoaded
        /\ Len(log) >= 7 => log[7].bytes = Loaded(call.arg)

C14_Witness ==
    /\ fast
    /\ call.name = "try_transmit"
    /\ result.kind = "ok"
    /\ log[6].bytes = <<68>>
    /\ SlotLoaded = 2
    /\ log[7] = Wr(Loaded(call.arg))

\* C15: whatever try_transmit calls and completed transmissions came
\* before, a try_transmit that gets as far as loading a frame loads it into
\* a slot whose transmit request was not pending on the chip when the call
\* was made, and it raises the request of no other slot.
C15_NoPendingSlotLoaded ==
    [][ (call'.name = "try_transmit" /\ Len(log') >= 6) =>
            \E i \in TxBuffer :
                /\ log'[6].bytes = LoadOpening(i)
                /\ ~chip.txreq[i]
                /\ \A j \in TxBuffer \ {i} : chip'.txreq[j] = chip.txreq[j] ]_vars

C15_Witness ==
    /\ call.name = "try_transmit"
    /\ result.kind = "ok"
    /\ log[6].bytes = LoadOpening(0)
    /\ TxPending(1) /\ TxPending(2)
    /\ chip.txreq[0] /\ chip.txreq[1] /\ chip.txreq[2]

\* C16: in the basic build the flag clear of read_rx_buffer for buffer i is
\* the instruction Bit Modify on CANINTF (0x2C) with mask 1 << i and data 0,
\* in a window of its own after the read window is closed; on the chip it
\* clears the receive flag of buffer i and leaves the other seven flags as
\* they were.
C16_ClearsOnlyOwnFlag ==
    [][ (~fast /\ call'.name = "read_rx_buffer" /\ result'.kind = "ok") =>
            LET i == call'.arg[1] IN
            /\ Len(log') = 8
            /\ log'[5] = Hi
            /\ SubSeq(log', 6, 8) = Win(<<5, 44, 2^i, 0>>)
            /\ \A b \in 0..7 :
                   Bit(chip'.canintf, b) = (IF b = i THEN 0 ELSE Bit(chip.canintf, b)) ]_vars

C16_Witness ==
    /\ ~fast
    /\ call.name = "read_rx_buffer"
    /\ result.kind = "ok"
    /\ call.arg[1] = 1
    /\ log[7].bytes = <<5, 44, 2, 0>>
    /\ chip.canintf = 253

\* C17: whenever a driver operation has returned, with success, would-block
\* or a transport error, chip select is released.
C17_CsReleasedOnReturn ==
    (call.name \in {"try_transmit", "try_receive"}) => cs = "high"

\* the first bytes of the instructions opened in the calls l
OpcodesSent(l) ==
    { l[j].bytes[1] : j \in { n \in 2..Len(l) : l[n].k = "write" /\ l[n - 1].k = "low" } }

\* the last call of l is a failed call of the second instruction,
\* before its window is closed
FailedInSecondWindow(l) ==
    /\ Len(l) >= 6
    /\ ~l[Len(l)].ok
    /\ Cardinality({ j \in 1..Len(l) : l[j].k = "low" }) = 2

\* C18: when the load of the transmit buffer fails inside try_transmit, the
\* call sends no request-to-send and no transmit request is raised on the
\* chip; in the basic build, when the read of the receive buffer fails
\* inside try_receive, no Bit Modify is sent and the receive flags of the
\* chip stay as they were.
C18_NothingAfterFailedTransfer ==
    [][ /\ (call'.name = "try_transmit" /\ FailedInSecondWindow(log')) =>
              /\ \A op \in OpcodesSent(log') : ~IsRts(op)
              /\ chip'.txreq = chip.txreq
        /\ (~fast /\ call'.name = "try_receive" /\ FailedInSecondWindow(log')) =>
              /\ Instruction_BitModify \notin OpcodesSent(log')
              /\ chip'.canintf = chip.canintf ]_vars

C18_Witness ==
    /\ ~fast
    /\ call.name = "try_receive"
    /\ call.fail = 5
    /\ FailedInSecondWindow(log)
    /\ log[Len(log)].k = "xfer"
    /\ RxPending(0)
    /\ Bit(chip.canintf, 0) = 1

\* C19: for a frame of declared length n in 0..8, the load sends after the
\* opcode/address bytes one write of exactly 5 + n bytes: the four
\* identifier bytes, the DLC byte and the first n payload bytes; the window
\* is closed after it.
C19_LoadLength ==
    (call.name = "try_transmit" /\ Len(log) >= 7) =>
        LET n == call.arg.dlc
            sent == log[7].bytes
        IN  /\ n \in 0..8
            /\ log[6].k = "write" /\ Len(log[6].bytes) = (IF fast THEN 1 ELSE 2)
            /\ log[7].k = "write"
            /\ Len(sent) = 5 + n
            /\ SubSeq(sent, 1, 4) = call.arg.id
            /\ sent[5] = n
            /\ \A j \in 1..n : sent[5 + j] = call.arg.data[j]
            /\ Len(log) >= 8 => log[8].k = "high"

C19_Witness ==
    /\ call.name = "try_transmit"
    /\ result.kind = "ok"
    /\ call.arg.dlc = 3
    /\ Len(log[7].bytes) = 8
    /\ log[7].bytes[8] = call.arg.data[3]

\* the writes of l that are not the write of CANCTRL and not the reset
ConfigWrites(l) ==
    { j \in 1..Len(l) :
        /\ l[j].k = "write"
        /\ l[j].bytes # <<Instruction_Reset>>
        /\ ~(Len(l[j].bytes) = 3 /\ l[j].bytes[1] = Instruction_Write
                                 /\ l[j].bytes[2] = CANCTRL_ADDRESS) }

\* C20: within apply_config, every write of the timing, receive-buffer
\* control and filter/mask registers comes after the reset window is
\* closed and before the write of CANCTRL, and the chip, whichever of the
\* five modes it was in before the call, is in Configuration mode at each of
\* them.
C20_ConfigWritesInConfigurationMode ==
    (call.name = "apply_config") =>
        /\ log[2].bytes = <<Instruction_Reset>>
        /\ \A j \in ConfigWrites(log) :
               /\ j > 3
               /\ log[3].k = "high"
               /\ \A n \in 1..(j - 1) :
                      ~(log[n].k = "write" /\ Len(log[n].bytes) = 3
                          /\ log[n].bytes[2] = CANCTRL_ADDRESS)
               /\ \A mode \in OperationMode :
                      ChipMode(ChipRun(ChipInit(CANCTRL_with_reqop(mode)),
                                       SubSeq(log, 1, j - 1))) = Configuration

C20_Witness ==
    /\ call.name = "apply_config"
    /\ result.kind = "ok"
    /\ Len(call.arg[2].filters) = 1
    /\ Cardinality(ConfigWrites(log)) = 6
    /\ ChipMode(chip) = NormalOperation

====
